---- MODULE Spec2Model ----
(***************************************************************************)
(* Model of slang's RenderScript export-type analysis                      *)
(* (slang_rs_export_type.cpp): the exportability check over host types,    *)
(* canonical naming, the interning factory RSExportType::Create with the   *)
(* per-context registry, and the construction of the six export classes.   *)
(*                                                                         *)
(* Host types (clang::Type nodes) are entries of the table astTypes, keyed *)
(* by a type id; record declarations are entries of the table tuDecls.     *)
(* Export type objects live in a modelled heap, addressed by positive      *)
(* integers.                                                               *)
(***************************************************************************)
EXTENDS Integers, Sequences, FiniteSets, TLC

VARIABLES
    mshape,   \* the form of the rs_matrix* struct declarations of the module under compilation
    astTypes, \* the clang::Type nodes of the module under compilation, by type id
    tuDecls,  \* the clang::RecordDecl nodes of the module under compilation, by decl id
    reg,      \* RSContext::mExportTypes: canonical name -> address of the export type
    heap,     \* every object allocated by new; a deleted object leaves a tombstone
    calls,    \* number of RSExportType::Create calls made so far
    call,     \* the outcome of the latest RSExportType::Create(Context, T)
    prev,     \* the outcome of the call before that
    chk,      \* the outcome of the latest TypeExportable(T, Diags, SM, VD)
    query     \* the latest keep(), equals() or convertToSpecType() and its outcome

vars == <<mshape, astTypes, tuDecls, reg, heap, calls, call, prev, chk, query>>

(***************************************************************************)
(* Bounds of the model.                                                    *)
(***************************************************************************)
MaxCalls == 3
MaxQueries == 2
\* the record expansions of one exportability check that the model follows
MaxExpansions == 6

(***************************************************************************)
(* Null pointers.  NULL is the null export-type address, NoType the null   *)
(* clang::Type pointer / record declaration, EmptyName the empty StringRef.*)
(***************************************************************************)
NULL == 0
NoType == ""
EmptyName == ""

(***************************************************************************)
(* Host types.                                                             *)
(***************************************************************************)
Ty(kind, bk, to, n, decl) ==
    [kind |-> kind, bk |-> bk, to |-> to, n |-> n, decl |-> decl]

Builtin(bk)      == Ty("Builtin", bk, NoType, 0, NoType)
Typedef(to)      == Ty("Typedef", "", to, 0, NoType)
Pointer(to)      == Ty("Pointer", "", to, 0, NoType)
ExtVector(to, n) == Ty("ExtVector", "", to, n, NoType)
ConstArr(to, n)  == Ty("ConstantArray", "", to, n, NoType)
IncArr(to)       == Ty("IncompleteArray", "", to, 0, NoType)
Record(d)        == Ty("Record", "", NoType, 0, d)
Enum             == Ty("Enum", "", NoType, 0, NoType)

HostType ==
    [ int         |-> Builtin("Int"),
      float       |-> Builtin("Float"),
      wchar       |-> Builtin("WChar"),
      myint       |-> Typedef("int"),
      enumE       |-> Enum,
      int2        |-> ExtVector("int", 2),
      int3        |-> ExtVector("int", 3),
      int4        |-> ExtVector("int", 4),
      int1        |-> ExtVector("int", 1),
      int5        |-> ExtVector("int", 5),
      wchar2      |-> ExtVector("wchar", 2),
      wchar3      |-> ExtVector("wchar", 3),
      int_a2      |-> ConstArr("int", 2),
      int_a3      |-> ConstArr("int", 3),
      int_a2_a3   |-> ConstArr("int_a3", 2),
      int_inc     |-> IncArr("int"),
      int_inc_a2  |-> ConstArr("int_inc", 2),
      int2_a1     |-> ConstArr("int2", 1),
      int2_a2     |-> ConstArr("int2", 2),
      int3_a1     |-> ConstArr("int3", 1),
      int3_a2     |-> ConstArr("int3", 2),
      int4_a3     |-> ConstArr("int4", 3),
      wchar2_a2   |-> ConstArr("wchar2", 2),
      wchar3_a1   |-> ConstArr("wchar3", 1),
      int5_a2     |-> ConstArr("int5", 2),
      wchar_a2    |-> ConstArr("wchar", 2),
      pint_a2     |-> ConstArr("pint", 2),
      P2_a2       |-> ConstArr("P2", 2),
      float_a4    |-> ConstArr("float", 4),
      float_a9    |-> ConstArr("float", 9),
      float_a16   |-> ConstArr("float", 16),
      int_a4      |-> ConstArr("int", 4),
      int_a9      |-> ConstArr("int", 9),
      int_a16     |-> ConstArr("int", 16),
      farr4       |-> Typedef("float_a4"),
      farr9       |-> Typedef("float_a9"),
      farr16      |-> Typedef("float_a16"),
      pint        |-> Pointer("int"),
      ppint       |-> Pointer("pint"),
      pppint      |-> Pointer("ppint"),
      pwchar      |-> Pointer("wchar"),
      ppwchar     |-> Pointer("pwchar"),
      pint_a2p    |-> Pointer("int_a2"),
      pint_a2_a3  |-> Pointer("int_a2_a3"),
      RMD_a2      |-> ConstArr("RMD", 2),
      pint2       |-> Pointer("int2"),
      pP2         |-> Pointer("P2"),
      pSL         |-> Pointer("SL"),
      pBf         |-> Pointer("Bf"),
      pmat2       |-> Pointer("mat2"),
      penum       |-> Pointer("enumE"),
      P2          |-> Record("P2"),
      Bf          |-> Record("Bf"),
      SL          |-> Record("SL"),
      N           |-> Record("N"),
      Loop        |-> Record("Loop"),
      U           |-> Record("U"),
      Und         |-> Record("Und"),
      Anon        |-> Record("Anon"),
      Flex        |-> Record("Flex"),
      HasObj      |-> Record("HasObj"),
      rsalloc     |-> Record("rsalloc"),
      rselem      |-> Record("rselem"),
      mat2        |-> Record("mat2"),
      mat3        |-> Record("mat3"),
      mat4        |-> Record("mat4"),
      M           |-> Record("M"),
      Deep        |-> Record("Deep"),
      RA          |-> Record("RA"),
      RMD         |-> Record("RMD"),
      RPA         |-> Record("RPA"),
      RNP         |-> Record("RNP"),
      RRMD        |-> Record("RRMD"),
      I2          |-> Record("I2"),
      LA          |-> Record("LA"),
      LB          |-> Record("LB"),
      LB_a2       |-> ConstArr("LB", 2),
      LBad        |-> Record("LBad"),
      pLoop       |-> Pointer("Loop"),
      pM          |-> Pointer("M"),
      M_a2        |-> ConstArr("M", 2) ]

TypeIds == DOMAIN HostType

(***************************************************************************)
(* Record declarations (clang::RecordDecl with its ASTRecordLayout).       *)
(***************************************************************************)
Fld(name, type, offBits) ==
    [name |-> name, type |-> type, bitfield |-> FALSE, offBits |-> offBits]
BitFld(name, type, offBits) ==
    [name |-> name, type |-> type, bitfield |-> TRUE, offBits |-> offBits]

Decl(name, tdname, kind, defined, flex, objm, packed, sizeBits, fields) ==
    [name |-> name, typedefName |-> tdname, tagKind |-> kind,
     defined |-> defined, flex |-> flex, objMember |-> objm,
     packed |-> packed, sizeBits |-> sizeBits, fields |-> fields]

Struct(name, sizeBits, fields) ==
    Decl(name, "", "struct", TRUE, FALSE, FALSE, FALSE, sizeBits, fields)

\* The forms in which the module under compilation may declare rs_matrixNxN.
MatrixShapes ==
    {"good", "empty", "scalar", "intelem", "wronglen", "extra", "undef",
     "typedefarr", "bitfield"}

FloatArr(dim) == IF dim = 2 THEN "float_a4" ELSE IF dim = 3 THEN "float_a9" ELSE "float_a16"
IntArr(dim)   == IF dim = 2 THEN "int_a4" ELSE IF dim = 3 THEN "int_a9" ELSE "int_a16"
TdArr(dim)    == IF dim = 2 THEN "farr4" ELSE IF dim = 3 THEN "farr9" ELSE "farr16"
WrongArr(dim) == IF dim = 2 THEN "float_a9" ELSE IF dim = 3 THEN "float_a16" ELSE "float_a4"

MatrixFields(shape, dim) ==
    CASE shape = "good"       -> << Fld("m", FloatArr(dim), 0) >>
      [] shape = "empty"      -> << >>
      [] shape = "scalar"     -> << Fld("m", "float", 0) >>
      [] shape = "intelem"    -> << Fld("m", IntArr(dim), 0) >>
      [] shape = "wronglen"   -> << Fld("m", WrongArr(dim), 0) >>
      [] shape = "extra"      -> << Fld("m", FloatArr(dim), 0),
                                    Fld("n", "int", 32 * dim * dim) >>
      [] shape = "typedefarr" -> << Fld("m", TdArr(dim), 0) >>
      [] shape = "bitfield"   -> << Fld("m", FloatArr(dim), 0),
                                    BitFld("flags", "int", 32 * dim * dim) >>
      [] OTHER                -> << >>

\* typedef struct { float m[dim*dim]; } rs_matrixNxN;  or, when the module
\* only declares it,  struct rs_matrixNxN;
MatrixDecl(shape, cname, dim) ==
    IF shape = "undef"
    THEN Decl(cname, "", "struct", FALSE, FALSE, FALSE, FALSE, 0, << >>)
    ELSE Decl("", cname, "struct", TRUE, FALSE, FALSE, FALSE,
              32 * dim * dim, MatrixFields(shape, dim))

RecordDeclIn(shape, d) ==
    CASE d = "P2"   -> Struct("P2", 64, << Fld("x", "int", 0), Fld("y", "float", 32) >>)
      [] d = "Bf"   -> Struct("Bf", 64, << Fld("a", "int", 0), BitFld("b", "int", 35) >>)
      [] d = "SL"   -> Struct("S", 64, << Fld("next", "pSL", 0), Fld("v", "int", 32) >>)
      [] d = "N"    -> Struct("N", 128, << Fld("a", "P2", 0), Fld("b", "P2", 64) >>)
      [] d = "Loop" -> Struct("Loop", 64, << Fld("l", "Loop", 0), Fld("v", "myint", 32) >>)
      [] d = "U"    -> Decl("U", "", "union", TRUE, FALSE, FALSE, FALSE, 32,
                            << Fld("i", "int", 0), Fld("f", "float", 0) >>)
      [] d = "Und"  -> Decl("Und", "", "struct", FALSE, FALSE, FALSE, FALSE, 0, << >>)
      [] d = "Anon" -> Decl("", "", "struct", TRUE, FALSE, FALSE, FALSE, 32,
                            << Fld("x", "int", 0) >>)
      [] d = "Flex" -> Decl("Flex", "", "struct", TRUE, TRUE, FALSE, FALSE, 32,
                            << Fld("n", "int", 0), Fld("data", "int_inc", 32) >>)
      [] d = "HasObj" -> Decl("HasObj", "", "struct", TRUE, FALSE, TRUE, FALSE, 32,
                            << Fld("x", "int", 0) >>)
      [] d = "rsalloc" -> Decl("", "rs_allocation", "struct", TRUE, FALSE, FALSE, TRUE, 32,
                            << Fld("p", "pint", 0) >>)
      [] d = "rselem" -> Struct("rs_element", 32, << BitFld("id", "int", 0) >>)
      [] d = "mat2" -> MatrixDecl(shape, "rs_matrix2x2", 2)
      [] d = "mat3" -> MatrixDecl(shape, "rs_matrix3x3", 3)
      [] d = "mat4" -> MatrixDecl(shape, "rs_matrix4x4", 4)
      [] d = "M"    -> Struct("M", 160, << Fld("a", "int", 0), Fld("m", "mat2", 32) >>)
      [] d = "Deep" -> Struct("Deep", 256, << Fld("p", "P2", 0), Fld("m", "M", 64),
                                              Fld("z", "int", 224) >>)
      [] d = "RA"   -> Struct("RA", 192, << Fld("a", "int_a2", 0), Fld("v", "int3_a1", 64) >>)
      [] d = "RMD"  -> Struct("RMD", 192, << Fld("a", "int_a2_a3", 0) >>)
      [] d = "RPA"  -> Struct("RPA", 64, << Fld("a", "pint_a2", 0) >>)
      [] d = "RNP"  -> Struct("RNP", 96, << Fld("k", "int", 0), Fld("s", "SL", 32) >>)
      [] d = "RRMD" -> Struct("RRMD", 256, << Fld("p", "P2", 0), Fld("r", "RMD", 64) >>)
      [] d = "I2"   -> Struct("int2", 32, << Fld("a", "int", 0) >>)
      [] d = "LA"   -> Struct("LA", 128, << Fld("bs", "LB_a2", 0) >>)
      [] d = "LB"   -> Struct("LB", 64, << Fld("a", "LA", 0), Fld("k", "int", 32) >>)
      [] d = "LBad" -> Struct("LBad", 64, << Fld("l", "LBad", 0), Fld("w", "wchar", 32) >>)

DeclIds == {t \in TypeIds : HostType[t].kind = "Record"}

\* the declarations of each possible module, tabulated
ModuleDecls == [shape \in MatrixShapes |-> [d \in DeclIds |-> RecordDeclIn(shape, d)]]

\* the declarations of the module under compilation
RecordDecl(d) == tuDecls[d]

(***************************************************************************)
(* Type predicates and accessors of the host AST.                          *)
(***************************************************************************)
RECURSIVE GET_CANONICAL_TYPE(_)
GET_CANONICAL_TYPE(T) ==
    IF T = NoType THEN NoType
    ELSE IF astTypes[T].kind = "Typedef" THEN GET_CANONICAL_TYPE(astTypes[T].to)
    ELSE T

getTypeClass(T) == astTypes[T].kind
TypeClassOf(T) == astTypes[GET_CANONICAL_TYPE(T)].kind

isArrayType(T)     == TypeClassOf(T) \in {"ConstantArray", "IncompleteArray"}
isExtVectorType(T) == TypeClassOf(T) = "ExtVector"
isUnionType(T)     == TypeClassOf(T) = "Record" /\
                      RecordDecl(astTypes[GET_CANONICAL_TYPE(T)].decl).tagKind = "union"
isStructureType(T) == TypeClassOf(T) = "Record" /\
                      RecordDecl(astTypes[GET_CANONICAL_TYPE(T)].decl).tagKind = "struct"

GET_POINTEE_TYPE(T)                == GET_CANONICAL_TYPE(astTypes[T].to)
GET_EXT_VECTOR_ELEMENT_TYPE(T)     == GET_CANONICAL_TYPE(astTypes[T].to)
GET_CONSTANT_ARRAY_ELEMENT_TYPE(T) == GET_CANONICAL_TYPE(astTypes[T].to)

\* RSClangBuiltinEnums.inc: the builtin kinds that ENUM_SUPPORT_BUILTIN_TYPE lists,
\* with the data type and the C name of each.
SupportedBuiltin == {"Int", "Float"}
BuiltinCName(bk)    == IF bk = "Int" THEN "int" ELSE IF bk = "Float" THEN "float" ELSE EmptyName
BuiltinDataType(bk) == IF bk = "Int" THEN "Signed32"
                       ELSE IF bk = "Float" THEN "Float32" ELSE "Unknown"

\* RSMatrixTypeEnums.inc and RSObjectTypeEnums.inc, as GetRSSpecificType loads them.
RSSpecificTypeMap ==
    [ rs_matrix2x2  |-> "RSMatrix2x2",
      rs_matrix3x3  |-> "RSMatrix3x3",
      rs_matrix4x4  |-> "RSMatrix4x4",
      rs_element    |-> "RSElement",
      rs_allocation |-> "RSAllocation" ]

GetRSSpecificTypeOfName(TypeName) ==
    IF TypeName = EmptyName THEN "Unknown"
    ELSE IF TypeName \in DOMAIN RSSpecificTypeMap THEN RSSpecificTypeMap[TypeName]
    ELSE "Unknown"

IsRSMatrixType(DT) == DT \in {"RSMatrix2x2", "RSMatrix3x3", "RSMatrix4x4"}
IsRSObjectType(DT) == DT \in {"RSElement", "RSAllocation"}

IsPrimitiveType(T) == T # NoType /\ getTypeClass(T) = "Builtin"

(***************************************************************************)
(* Diagnostics.  A check threads a record r through its recursion:         *)
(*   r.ret   the returned clang::Type (NoType for NULL),                    *)
(*   r.sps   the SmallPtrSet of record types under check,                   *)
(*   r.expanded  the record types whose fields were gone through, in order, *)
(*   r.ovf   whether the recursion went on beyond MaxExpansions,            *)
(*   r.rep   the errors reported to clang::Diagnostic so far,               *)
(*   r.asrt  whether an assert(false) was passed.                           *)
(* Diags and SM say whether the two pointers are non-null; VD is the name   *)
(* of the variable declaration, NoType when there is none.                  *)
(***************************************************************************)
\* A local variable: the value e, computed once, under its name in the rest K
\* of the function body.
Local(e, K(_)) == K(e)

Report(r, Message, args) ==
    [r EXCEPT !.rep = Append(@, [msg |-> Message, args |-> args])]

Return(r, T) == [r EXCEPT !.ret = T]

ReportTypeError(r, Diags, SM, VD, TopLevelRecord, Message) ==
    IF ~Diags \/ ~SM THEN r
    ELSE IF TopLevelRecord # NoType
         THEN Report(r, Message, << RecordDecl(TopLevelRecord).name >>)
    ELSE IF VD # NoType
         THEN Report(r, Message, << VD >>)
    ELSE [r EXCEPT !.asrt = TRUE]

(***************************************************************************)
(* Canonical names and the exportability check.  GetTypeName of a pointer  *)
(* normalizes the pointee, which runs the check, which names records.      *)
(***************************************************************************)
RECURSIVE GetTypeName(_)
RECURSIVE NormalizeType(_, _, _, _)
RECURSIVE TypeExportableHelper(_, _, _, _, _, _)
RECURSIVE RecordFieldsExportable(_, _, _, _, _, _, _, _)
RECURSIVE ConstantArrayTypeExportableHelper(_, _, _, _, _, _)

\* RSExportVectorType::GetTypeName: Name[] = { cname"2", cname"3", cname"4" },
\* read at index getNumElements() - 2.
VectorNameTable(cname) == << cname \o "2", cname \o "3", cname \o "4" >>
VectorNameIndex(n) == n - 2
\* what a read outside the table yields
OutOfTableName == "?"

VectorGetTypeName(EVT) ==
    LET ElementType == GET_EXT_VECTOR_ELEMENT_TYPE(EVT)
        n == astTypes[EVT].n
    IN  IF getTypeClass(ElementType) # "Builtin" THEN EmptyName
        ELSE IF n < 1 \/ n > 4 THEN EmptyName
        ELSE IF astTypes[ElementType].bk \in SupportedBuiltin
             THEN LET Name == VectorNameTable(BuiltinCName(astTypes[ElementType].bk))
                      i == VectorNameIndex(n)
                  IN  IF i \in 0 .. (Len(Name) - 1) THEN Name[i + 1] ELSE OutOfTableName
        ELSE EmptyName

RecordName(RD) ==
    LET Name == RecordDecl(RD).name
    IN  IF Name # EmptyName THEN Name
        ELSE IF RecordDecl(RD).typedefName # EmptyName THEN RecordDecl(RD).typedefName
        \* the redeclarations of an unnamed tag are unnamed as well
        ELSE Name

DUMMY_RS_TYPE_NAME_PREFIX == "<"
DUMMY_TYPE_NAME_FOR_RS_CONSTANT_ARRAY_TYPE == "<" \o "ConstantArray" \o ">"

startswith(Name, Prefix) ==
    Len(Name) >= Len(Prefix) /\ SubSeq(Name, 1, Len(Prefix)) = Prefix

GetTypeName(T0) ==
    LET T == GET_CANONICAL_TYPE(T0)
    IN  IF T = NoType THEN EmptyName
        ELSE CASE getTypeClass(T) = "Builtin" ->
                    IF astTypes[T].bk \in SupportedBuiltin
                    THEN BuiltinCName(astTypes[T].bk)
                    ELSE EmptyName
               [] getTypeClass(T) = "Record" ->
                    IF isStructureType(T) THEN RecordName(astTypes[T].decl)
                    ELSE EmptyName
               [] getTypeClass(T) = "Pointer" ->
                    Local(NormalizeType(GET_POINTEE_TYPE(T), FALSE, FALSE, NoType),
                          LAMBDA nt : IF nt.ok THEN "*" \o nt.name ELSE EmptyName)
               [] getTypeClass(T) = "ExtVector" -> VectorGetTypeName(T)
               [] getTypeClass(T) = "ConstantArray" ->
                    DUMMY_TYPE_NAME_FOR_RS_CONSTANT_ARRAY_TYPE
               [] OTHER -> EmptyName

GetRSSpecificType(T0) ==
    LET T == GET_CANONICAL_TYPE(T0)
    IN  IF T = NoType \/ getTypeClass(T) # "Record" THEN "Unknown"
        ELSE GetRSSpecificTypeOfName(GetTypeName(T))

\* Mutant: the test for a multidimensional array left out.
IsMultidimensional_Never(ElementType) == FALSE

\* ElementType->isArrayType(), the test for a multidimensional array
IsMultidimensional(ElementType) == isArrayType(ElementType)

\* Mutant: the test for an array of width 3 vectors left out.
IsWidth3VectorArray_Never(numElements, Size) == FALSE

\* numElements == 3 && CAT->getSize() != 1
IsWidth3VectorArray(numElements, Size) == numElements = 3 /\ Size # 1

\* Mutant: an array case that reports the failure of its element type again.
ConstantArrayTypeExportableHelper_ReportsAgain(CAT, r, Diags, SM, VD, TopLevelRecord) ==
    LET ElementType == GET_CONSTANT_ARRAY_ELEMENT_TYPE(CAT)
        e == TypeExportableHelper(ElementType, r, Diags, SM, VD, TopLevelRecord)
    IN  IF IsMultidimensional(ElementType)
        THEN Return(ReportTypeError(r, Diags, SM, VD, TopLevelRecord,
                        "multidimensional arrays cannot be exported: '%0'"), NoType)
        ELSE IF e.ret = NoType
        THEN Return(ReportTypeError(e, Diags, SM, VD, TopLevelRecord,
                        "arrays of this type cannot be exported: '%0'"), NoType)
        ELSE Return(e, CAT)

ConstantArrayTypeExportableHelper(CAT, r, Diags, SM, VD, TopLevelRecord) ==
    LET ElementType == GET_CONSTANT_ARRAY_ELEMENT_TYPE(CAT)
        checkElement ==
            LET e == TypeExportableHelper(ElementType, r, Diags, SM, VD, TopLevelRecord)
            IN  IF e.ret = NoType THEN e ELSE Return(e, CAT)
    IN  IF IsMultidimensional(ElementType)
        THEN Return(ReportTypeError(r, Diags, SM, VD, TopLevelRecord,
                        "multidimensional arrays cannot be exported: '%0'"), NoType)
        ELSE IF isExtVectorType(ElementType)
        THEN LET numElements == astTypes[ElementType].n
                 BaseElementType == GET_EXT_VECTOR_ELEMENT_TYPE(ElementType)
             IN  IF ~IsPrimitiveType(BaseElementType)
                 THEN Return(ReportTypeError(r, Diags, SM, VD, TopLevelRecord,
                        "vectors of non-primitive types cannot be exported: '%0'"), NoType)
                 ELSE IF IsWidth3VectorArray(numElements, astTypes[CAT].n)
                 THEN Return(ReportTypeError(r, Diags, SM, VD, TopLevelRecord,
                        "arrays of width 3 vector types cannot be exported: '%0'"), NoType)
                 ELSE checkElement
        ELSE checkElement

\* Mutant: a field loop that does not look at isBitField().
RecordFieldsExportable_NoBitFieldTest(T, RD, i, r, Diags, SM, VD, TopLevelRecord) ==
    IF i > Len(RecordDecl(RD).fields) THEN Return(r, T)
    ELSE LET FD == RecordDecl(RD).fields[i]
             FT == GET_CANONICAL_TYPE(FD.type)
             f  == TypeExportableHelper(FT, r, Diags, SM, VD, TopLevelRecord)
         IN  IF f.ret = NoType THEN f
             ELSE RecordFieldsExportable(T, RD, i + 1, f, Diags, SM, VD, TopLevelRecord)

\* Mutant: a field loop that goes on after a field that is not exportable.
RecordFieldsExportable_IgnoresFieldResult(T, RD, i, r, Diags, SM, VD, TopLevelRecord) ==
    IF i > Len(RecordDecl(RD).fields) THEN Return(r, T)
    ELSE LET FD == RecordDecl(RD).fields[i]
             FT == GET_CANONICAL_TYPE(FD.type)
             f  == TypeExportableHelper(FT, r, Diags, SM, VD, TopLevelRecord)
         IN  IF FD.bitfield
             THEN Return(IF Diags /\ SM
                         THEN Report(f, "bit fields are not able to be exported: '%0.%1'",
                                     << RecordDecl(RD).name, FD.name >>)
                         ELSE f, NoType)
             ELSE RecordFieldsExportable(T, RD, i + 1, f, Diags, SM, VD, TopLevelRecord)

\* The field loop of the Record case, from field i on.
RecordFieldsExportable(T, RD, i, r, Diags, SM, VD, TopLevelRecord) ==
    IF i > Len(RecordDecl(RD).fields) THEN Return(r, T)
    ELSE LET FD == RecordDecl(RD).fields[i]
             FT == GET_CANONICAL_TYPE(FD.type)
             f  == TypeExportableHelper(FT, r, Diags, SM, VD, TopLevelRecord)
         IN  IF f.ret = NoType THEN f
             ELSE IF FD.bitfield
             THEN Return(IF Diags /\ SM
                         THEN Report(f, "bit fields are not able to be exported: '%0.%1'",
                                     << RecordDecl(RD).name, FD.name >>)
                         ELSE f, NoType)
             ELSE RecordFieldsExportable(T, RD, i + 1, f, Diags, SM, VD, TopLevelRecord)

\* Mutant: the record under check is not remembered as the top-level record.
EnterRecord_NotRemembered(TopLevelRecord, RD) == TopLevelRecord

\* if (!TopLevelRecord) TopLevelRecord = RD;
EnterRecord(TopLevelRecord, RD) ==
    IF TopLevelRecord = NoType THEN RD ELSE TopLevelRecord

\* Mutant: the record goes through its fields without being in the checking set.
InsertMyself_NotInserted(r, T) == [r EXCEPT !.expanded = Append(@, T)]

\* SPS.insert(T), before the fields of the record T are gone through
InsertMyself(r, T) ==
    [r EXCEPT !.sps = @ \cup {T}, !.expanded = Append(@, T)]

\* Mutant: a Pointer case that returns NULL for a pointer to a pointer.
PointerTypeExportable_RejectsPointerToPointer(T, r, Diags, SM, VD, TopLevelRecord) ==
    IF TopLevelRecord # NoType
    THEN Return(ReportTypeError(r, Diags, SM, NoType, TopLevelRecord,
            "structures containing pointers cannot be exported: '%0'"), NoType)
    ELSE LET PointeeType == GET_POINTEE_TYPE(T)
         IN  IF getTypeClass(PointeeType) = "Pointer" THEN Return(r, NoType)
             ELSE IF isArrayType(PointeeType) THEN Return(r, NoType)
             ELSE LET p == TypeExportableHelper(PointeeType, r, Diags, SM,
                                                VD, TopLevelRecord)
                  IN  IF p.ret = NoType THEN p ELSE Return(p, T)

\* The Pointer case of TypeExportableHelper.
PointerTypeExportable(T, r, Diags, SM, VD, TopLevelRecord) ==
    IF TopLevelRecord # NoType
    THEN Return(ReportTypeError(r, Diags, SM, NoType, TopLevelRecord,
            "structures containing pointers cannot be exported: '%0'"), NoType)
    ELSE LET PointeeType == GET_POINTEE_TYPE(T)
         IN  IF getTypeClass(PointeeType) = "Pointer" THEN Return(r, T)
             ELSE IF isArrayType(PointeeType) THEN Return(r, NoType)
             ELSE LET p == TypeExportableHelper(PointeeType, r, Diags, SM,
                                                VD, TopLevelRecord)
                  IN  IF p.ret = NoType THEN p ELSE Return(p, T)

TypeExportableHelper(T0, r, Diags, SM, VD, TopLevelRecord) ==
    LET T == GET_CANONICAL_TYPE(T0)
    IN  IF T = NoType THEN Return(r, NoType)
        ELSE IF T \in r.sps THEN Return(r, T)
        ELSE CASE getTypeClass(T) = "Builtin" ->
                    IF astTypes[T].bk \in SupportedBuiltin
                    THEN Return(r, T) ELSE Return(r, NoType)
               [] getTypeClass(T) = "Record" ->
                    LET RD == astTypes[T].decl
                        TLR == EnterRecord(TopLevelRecord, RD)
                    IN  IF GetRSSpecificType(T) # "Unknown" THEN Return(r, T)
                        ELSE IF isUnionType(T)
                        THEN Return(ReportTypeError(r, Diags, SM, NoType, RD,
                                        "unions cannot be exported: '%0'"), NoType)
                        ELSE IF ~isStructureType(T)
                        THEN Return([r EXCEPT !.asrt = TRUE], NoType)
                        ELSE IF ~RecordDecl(RD).defined
                        THEN Return(ReportTypeError(r, Diags, SM, NoType, RD,
                                        "struct is not defined in this module"), NoType)
                        ELSE IF RecordDecl(RD).name = EmptyName
                        THEN Return(ReportTypeError(r, Diags, SM, NoType, RD,
                                        "anonymous structures cannot be exported"), NoType)
                        ELSE IF RecordDecl(RD).flex \/ RecordDecl(RD).objMember
                        THEN Return(r, NoType)
                        ELSE IF Len(r.expanded) >= MaxExpansions
                        THEN Return([r EXCEPT !.ovf = TRUE], NoType)
                        ELSE RecordFieldsExportable(T, RD, 1, InsertMyself(r, T),
                                        Diags, SM, VD, TLR)
               [] getTypeClass(T) = "Pointer" ->
                    PointerTypeExportable(T, r, Diags, SM, VD, TopLevelRecord)
               [] getTypeClass(T) = "ExtVector" ->
                    IF astTypes[T].n < 2 \/ astTypes[T].n > 4 THEN Return(r, NoType)
                    ELSE LET ElementType == GET_EXT_VECTOR_ELEMENT_TYPE(T)
                         IN  IF getTypeClass(ElementType) # "Builtin" THEN Return(r, NoType)
                             ELSE LET e == TypeExportableHelper(ElementType, r, Diags, SM,
                                                                VD, TopLevelRecord)
                                  IN  IF e.ret = NoType THEN e ELSE Return(e, T)
               [] getTypeClass(T) = "ConstantArray" ->
                    ConstantArrayTypeExportableHelper(T, r, Diags, SM, VD, TopLevelRecord)
               [] OTHER -> Return(r, NoType)

NoCheckYet == [ret |-> NoType, sps |-> {}, rep |-> << >>, asrt |-> FALSE,
               expanded |-> << >>, ovf |-> FALSE]

TypeExportable(T, Diags, SM, VD) ==
    TypeExportableHelper(T, NoCheckYet, Diags, SM, VD, NoType)

\* ok: the returned bool; T and name: the two reference parameters on return;
\* exp: the result of the exportability check it ran.
NormalizeType(T, Diags, SM, VD) ==
    Local(TypeExportable(T, Diags, SM, VD), LAMBDA e :
        IF e.ret = NoType
        THEN [ok |-> FALSE, T |-> NoType, name |-> EmptyName, exp |-> e]
        ELSE Local(GetTypeName(e.ret), LAMBDA TypeName :
            IF TypeName = EmptyName
            THEN [ok |-> FALSE, T |-> e.ret, name |-> EmptyName,
                  exp |-> IF Diags /\ SM
                          THEN Report(e, "anonymous types cannot be exported",
                                      IF VD # NoType THEN << VD >> ELSE << >>)
                          ELSE e]
            ELSE [ok |-> TRUE, T |-> e.ret, name |-> TypeName, exp |-> e]))

(***************************************************************************)
(* Export type objects and the context.  A construction threads a record c *)
(* through its recursion:                                                  *)
(*   c.reg, c.heap   the registry and the heap,                            *)
(*   c.ret           the returned RSExportType* (NULL for none),           *)
(*   c.reuse         whether operator new hands out a freed address again, *)
(*   c.rep           the errors reported to Context->getDiagnostics(),     *)
(*   c.news          the addresses constructed at, in order,               *)
(*   c.interned      the registry entries inserted, in order,              *)
(*   c.deleted       the addresses deleted,                                *)
(*   c.returned      the addresses RSExportType::Create returned,          *)
(*   c.asrt          whether an assert(false) was passed.                  *)
(***************************************************************************)
\* union RSType: the class tag and what the class adds.  A pointer to a
\* descriptor is the address of the export type that owns it.
Descriptor(cls, name, dt, n, nested, fields) ==
    [cls |-> cls, name |-> name, dt |-> dt, n |-> n, nested |-> nested,
     fields |-> fields]

\* mSpecType == NULL
NoSpecType == Descriptor("None", EmptyName, "Unknown", 0, NULL, << >>)

Obj(cls, name, dt, n, ref, packed, artificial, alloc) ==
    [cls |-> cls, name |-> name, dt |-> dt, n |-> n, ref |-> ref,
     packed |-> packed, artificial |-> artificial, allocSize |-> alloc,
     fields |-> << >>, kept |-> FALSE, mSpecType |-> NoSpecType]

Freed == Obj("Freed", EmptyName, "Unknown", 0, NULL, FALSE, FALSE, 0)

Field(ET, name, offset) == [type |-> ET, name |-> name, offset |-> offset]

EmptyRegistry == [n \in {} |-> NULL]

findExportType(registry, TypeName) ==
    IF TypeName \in DOMAIN registry THEN registry[TypeName] ELSE NULL

\* RSContext::insertExportType: a StringMap insertion, refused when the key is present.
insertExportType(registry, TypeName, ET) ==
    IF TypeName \in DOMAIN registry THEN registry
    ELSE [n \in DOMAIN registry \cup {TypeName} |->
            IF n = TypeName THEN ET ELSE registry[n]]

FreedAddresses(h) == {a \in 1 .. Len(h) : h[a].cls = "Freed"}

LowestOf(S) == CHOOSE a \in S : \A b \in S : a <= b

\* operator new: a fresh address, or one that a delete gave back.
Allocate(c) ==
    IF c.reuse /\ FreedAddresses(c.heap) # {}
    THEN LowestOf(FreedAddresses(c.heap))
    ELSE Len(c.heap) + 1

Store(h, a, o) == IF a <= Len(h) THEN [h EXCEPT ![a] = o] ELSE Append(h, o)

\* Mutant: a constructor that forgets to insert the object into the context.
NewExportType_NoInsert(c, o) ==
    LET a == Allocate(c)
    IN  [c EXCEPT !.heap = Store(@, a, o), !.news = Append(@, a), !.ret = a]

\* new RSExportXxxType(...): the object, and the RSExportType constructor's
\* insertion into the context unless the name starts with '<'.
NewExportType(c, o) ==
    LET a == Allocate(c)
        cached == ~startswith(o.name, DUMMY_RS_TYPE_NAME_PREFIX)
        inserted == cached /\ o.name \notin DOMAIN c.reg
    IN  [c EXCEPT !.heap = Store(@, a, o),
                  !.reg = IF cached THEN insertExportType(@, o.name, a) ELSE @,
                  !.news = Append(@, a),
                  !.interned = IF inserted
                               THEN Append(@, [name |-> o.name, addr |-> a]) ELSE @,
                  !.ret = a]

\* Mutant: a destructor that also deletes the export types of the fields built so far.
DeleteExportType_WithFieldTypes(c, a) ==
    LET gone == {a} \cup {c.heap[a].fields[i].type : i \in 1 .. Len(c.heap[a].fields)}
    IN  [c EXCEPT !.heap = [x \in 1 .. Len(c.heap) |->
                                IF x \in gone THEN Freed ELSE c.heap[x]],
                  !.deleted = @ \cup gone]

\* delete ERT: ~RSExportRecordType and ~RSExportType release the object only.
DeleteExportType(c, a) ==
    [c EXCEPT !.heap = [@ EXCEPT ![a] = Freed],
              !.deleted = @ \cup {a}]

Fail(c) == [c EXCEPT !.ret = NULL]

\* bookkeeping: a non-null pointer returned by RSExportType::Create(Context, T)
Returned(c) == IF c.ret = NULL THEN c ELSE [c EXCEPT !.returned = @ \cup {c.ret}]

ContextReport(c, Message, args) ==
    [c EXCEPT !.rep = Append(@, [msg |-> Message, args |-> args])]

(***************************************************************************)
(* The factories.                                                          *)
(***************************************************************************)
RECURSIVE Create(_, _)
RECURSIVE CreateNamed(_, _, _)
RECURSIVE PointerCreate(_, _, _)
RECURSIVE ConstantArrayCreate(_, _)
RECURSIVE RecordCreate(_, _, _, _)
RECURSIVE RecordCreateFields(_, _, _, _)

\* RSExportPrimitiveType::GetDataType: [dt, c], c with what it reported.
GetDataType(c, T) ==
    IF T = NoType THEN [dt |-> "Unknown", c |-> c]
    ELSE CASE getTypeClass(T) = "Builtin" ->
                IF astTypes[T].bk \in SupportedBuiltin
                THEN [dt |-> BuiltinDataType(astTypes[T].bk), c |-> c]
                ELSE [dt |-> "Unknown",
                      c |-> ContextReport(c, "built-in type cannot be exported: '%0'",
                                          << getTypeClass(T) >>)]
           [] getTypeClass(T) = "Record" ->
                [dt |-> GetRSSpecificType(T), c |-> c]
           [] OTHER ->
                [dt |-> "Unknown",
                 c |-> ContextReport(c, "primitive type cannot be exported: '%0'",
                                     << getTypeClass(T) >>)]

\* RSExportPrimitiveType::Create(Context, T, TypeName, DK, Normalized)
PrimitiveCreateNamed(c, T, TypeName) ==
    Local(GetDataType(c, T), LAMBDA g :
        IF g.dt = "Unknown" \/ TypeName = EmptyName THEN Fail(g.c)
        ELSE NewExportType(g.c, Obj("Primitive", TypeName, g.dt, 0, NULL, FALSE, FALSE, 0)))

\* RSExportPrimitiveType::Create(Context, T, DK)
PrimitiveCreate(c, T) ==
    Local(NormalizeType(T, FALSE, FALSE, NoType), LAMBDA nt :
        IF nt.ok /\ IsPrimitiveType(nt.T)
        THEN PrimitiveCreateNamed(c, nt.T, nt.name)
        ELSE Fail(c))

\* Context->getASTContext().IntTy
IntTy == "int"

PointerCreate(c, PT, TypeName) ==
    LET PointeeType == GET_POINTEE_TYPE(PT)
    IN  Local(IF getTypeClass(PointeeType) # "Pointer"
              THEN Create(c, PointeeType)
              ELSE PrimitiveCreate(c, IntTy),
              LAMBDA p :
        IF p.ret = NULL THEN p
        ELSE NewExportType(p, Obj("Pointer", TypeName, "Unknown", 0, p.ret, FALSE, FALSE, 0)))

VectorCreate(c, EVT, TypeName) ==
    LET ElementType == GET_EXT_VECTOR_ELEMENT_TYPE(EVT)
    IN  Local(GetDataType(c, ElementType), LAMBDA g :
        IF g.dt # "Unknown"
        THEN NewExportType(g.c, Obj("Vector", TypeName, g.dt, astTypes[EVT].n, NULL,
                                    FALSE, FALSE, 0))
        ELSE Fail(g.c))

\* Mutant: the expected array size computed as Dim + Dim.
MatrixArraySize_Doubled(Dim) == Dim + Dim

\* the array size a matrix struct of dimension Dim must have: Dim * Dim
MatrixArraySize(Dim) == Dim * Dim

MatrixCreate(c, RT, TypeName, Dim) ==
    LET RD == RecordDecl(astTypes[RT].decl)
        FT == RD.fields[1].type
        ElementType == GET_CONSTANT_ARRAY_ELEMENT_TYPE(FT)
        made == NewExportType(c, Obj("Matrix", TypeName, "Unknown", Dim, NULL,
                                     FALSE, FALSE, 0))
        Invalid(Message, args) == Fail(ContextReport(c, Message, args))
    IN  IF ~RD.defined THEN made
        ELSE IF Len(RD.fields) = 0
        THEN Invalid("invalid matrix struct: must have 1 field for saving values: '%0'",
                     << RD.name >>)
        ELSE IF FT = NoType \/ getTypeClass(FT) # "ConstantArray"
        THEN Invalid("invalid matrix struct: first field should be an array with constant size: '%0'",
                     << RD.name >>)
        ELSE IF ElementType = NoType \/ getTypeClass(ElementType) # "Builtin"
                \/ astTypes[ElementType].bk # "Float"
        THEN Invalid("invalid matrix struct: first field should be a float array: '%0'",
                     << RD.name >>)
        ELSE IF astTypes[FT].n # MatrixArraySize(Dim)
        THEN Invalid("invalid matrix struct: first field should be an array with size %0: '%1'",
                     << MatrixArraySize(Dim), RD.name >>)
        ELSE IF Len(RD.fields) # 1
        THEN Invalid("invalid matrix struct: must have exactly 1 field: '%0'",
                     << RD.name >>)
        ELSE made

ConstantArrayCreate(c, CAT) ==
    LET Size == astTypes[CAT].n
        ElementType == GET_CONSTANT_ARRAY_ELEMENT_TYPE(CAT)
    IN  Local(Create(IF Size > 0 THEN c ELSE [c EXCEPT !.asrt = TRUE], ElementType),
              LAMBDA e :
        IF e.ret = NULL THEN e
        ELSE NewExportType(e, Obj("ConstantArray", DUMMY_TYPE_NAME_FOR_RS_CONSTANT_ARRAY_TYPE,
                                  "Unknown", Size, e.ret, FALSE, FALSE, 0)))

\* RSExportElement::CreateFromDecl for a field: the field's declared type goes
\* through RSExportType::Create.
CreateFromDecl(c, FD) == Create(c, FD.type)

\* Mutant: the offset of a field taken in bits.
FieldOffset_InBits(RD, Index) == RecordDecl(RD).fields[Index + 1].offBits

\* RL->getFieldOffset(Index) >> 3
FieldOffset(RD, Index) == RecordDecl(RD).fields[Index + 1].offBits \div 8

\* The field loop of RSExportRecordType::Create from field i on; Index = i - 1.
RecordCreateFields(c, ERT, RD, i) ==
    IF i > Len(RecordDecl(RD).fields) THEN [c EXCEPT !.ret = ERT]
    ELSE LET FD == RecordDecl(RD).fields[i]
             Index == i - 1
         IN  IF FD.bitfield THEN Fail(DeleteExportType(c, ERT))
             ELSE Local(CreateFromDecl(c, FD), LAMBDA e :
                 IF e.ret # NULL
                 THEN RecordCreateFields(
                          [e EXCEPT !.heap[ERT].fields =
                              Append(@, Field(e.ret, FD.name, FieldOffset(RD, Index)))],
                          ERT, RD, i + 1)
                 ELSE Fail(DeleteExportType(
                          ContextReport(e, "field type cannot be exported: '%0.%1'",
                                        << RecordDecl(RD).name, FD.name >>), ERT)))

RecordCreate(c, RT, TypeName, mIsArtificial) ==
    LET RD == astTypes[RT].decl
    IN  IF ~RecordDecl(RD).defined THEN Fail([c EXCEPT !.asrt = TRUE])
        ELSE Local(NewExportType(c, Obj("Record", TypeName, "Unknown", 0, NULL,
                                        RecordDecl(RD).packed, mIsArtificial,
                                        RecordDecl(RD).sizeBits \div 8)),
                   LAMBDA n : RecordCreateFields(n, n.ret, RD, 1))

\* RSExportType::Create(Context, T, TypeName)
CreateNamed(c, T, TypeName) ==
    IF findExportType(c.reg, TypeName) # NULL
    THEN [c EXCEPT !.ret = findExportType(c.reg, TypeName)]
    ELSE CASE getTypeClass(T) = "Record" ->
                LET dt == GetRSSpecificTypeOfName(TypeName)
                IN  CASE dt = "Unknown"     -> RecordCreate(c, T, TypeName, FALSE)
                      [] dt = "RSMatrix2x2" -> MatrixCreate(c, T, TypeName, 2)
                      [] dt = "RSMatrix3x3" -> MatrixCreate(c, T, TypeName, 3)
                      [] dt = "RSMatrix4x4" -> MatrixCreate(c, T, TypeName, 4)
                      [] OTHER              -> PrimitiveCreateNamed(c, T, TypeName)
           [] getTypeClass(T) = "Builtin" -> PrimitiveCreateNamed(c, T, TypeName)
           [] getTypeClass(T) = "Pointer" -> PointerCreate(c, T, TypeName)
           [] getTypeClass(T) = "ExtVector" -> VectorCreate(c, T, TypeName)
           [] getTypeClass(T) = "ConstantArray" -> ConstantArrayCreate(c, T)
           [] OTHER ->
                Fail(ContextReport(c, "unknown type cannot be exported: '%0'",
                                   << getTypeClass(T) >>))

\* RSExportType::Create(Context, T)
Create(c, T) ==
    Local(NormalizeType(T, FALSE, FALSE, NoType), LAMBDA nt :
        IF nt.ok THEN Returned(CreateNamed(c, nt.T, nt.name)) ELSE Fail(c))

(***************************************************************************)
(* keep().  The functions thread the heap h and return [h, ret].  A call   *)
(* through a pointer to a deleted object is undefined: stale says whether  *)
(* the freed storage still answers like the object it held (it is marked)  *)
(* or reads as already kept (nothing happens).                             *)
(***************************************************************************)
RECURSIVE keep(_, _, _)
RECURSIVE RecordKeepFields(_, _, _, _)

\* RSExportable::keep: false when the exportable is kept already, else it is marked.
RSExportableKeep(h, a) ==
    IF h[a].kept THEN [h |-> h, ret |-> FALSE]
    ELSE [h |-> [h EXCEPT ![a].kept = TRUE], ret |-> TRUE]

\* RSExportType::keep; the backend type it invalidates is no state of the model.
RSExportTypeKeep(h, a) == RSExportableKeep(h, a)

\* RSExportPointerType::keep
PointerKeep(h, a, stale) ==
    Local(RSExportTypeKeep(h, a), LAMBDA k :
        IF ~k.ret THEN k
        ELSE [h |-> keep(k.h, h[a].ref, stale).h, ret |-> TRUE])

\* RSExportConstantArrayType::keep
ConstantArrayKeep(h, a, stale) ==
    Local(RSExportTypeKeep(h, a), LAMBDA k :
        IF ~k.ret THEN k
        ELSE [h |-> keep(k.h, h[a].ref, stale).h, ret |-> TRUE])

\* the loop over mFields of RSExportRecordType::keep, from field i on
RecordKeepFields(h, a, i, stale) ==
    IF i > Len(h[a].fields) THEN h
    ELSE RecordKeepFields(keep(h, h[a].fields[i].type, stale).h, a, i + 1, stale)

\* RSExportRecordType::keep
RecordKeep(h, a, stale) ==
    Local(RSExportTypeKeep(h, a), LAMBDA k :
        IF ~k.ret THEN k
        ELSE [h |-> RecordKeepFields(k.h, a, 1, stale), ret |-> TRUE])

\* the virtual call ET->keep()
keep(h, a, stale) ==
    CASE h[a].cls = "Freed" ->
            IF stale THEN RSExportableKeep(h, a) ELSE [h |-> h, ret |-> FALSE]
      [] h[a].cls = "Pointer" -> PointerKeep(h, a, stale)
      [] h[a].cls = "ConstantArray" -> ConstantArrayKeep(h, a, stale)
      [] h[a].cls = "Record" -> RecordKeep(h, a, stale)
      [] OTHER -> RSExportTypeKeep(h, a)

(***************************************************************************)
(* equals().  The functions return [ret, returns]: the bool, and whether   *)
(* the call returns at all.  stk holds the calls (receiver, argument) that *)
(* are on the call stack: a call that is on the stack already recurses     *)
(* without end.  A call on a deleted object is undefined: ub is the bool   *)
(* that the read of the freed storage makes it return.                     *)
(***************************************************************************)
RECURSIVE equals(_, _, _, _, _)
RECURSIVE RecordEqualsFields(_, _, _, _, _, _)

Answer(b) == [ret |-> b, returns |-> TRUE]
NoReturn == [ret |-> FALSE, returns |-> FALSE]

\* RSExportable::equals: E is an exportable of the same kind (an export type).
RSExportableEquals(h, a, E) == E # NULL

\* RSExportType::equals
RSExportTypeEquals(h, a, E) ==
    IF ~RSExportableEquals(h, a, E) THEN FALSE
    ELSE h[E].cls = h[a].cls

\* RSExportPrimitiveType::equals
PrimitiveEquals(h, a, E) ==
    IF ~RSExportTypeEquals(h, a, E) THEN FALSE
    ELSE h[E].dt = h[a].dt

\* RSExportVectorType::equals
VectorEquals(h, a, E) ==
    IF ~PrimitiveEquals(h, a, E) THEN FALSE
    ELSE h[E].n = h[a].n

\* RSExportMatrixType::equals
MatrixEquals(h, a, E) ==
    IF ~RSExportTypeEquals(h, a, E) THEN FALSE
    ELSE h[E].n = h[a].n

\* RSExportPointerType::equals: E's pointee is asked about this pointee
PointerEquals(h, a, E, stk, ub) ==
    IF ~RSExportTypeEquals(h, a, E) THEN Answer(FALSE)
    ELSE equals(h, h[E].ref, h[a].ref, stk, ub)

\* RSExportConstantArrayType::equals
ConstantArrayEquals(h, a, E, stk, ub) ==
    IF ~RSExportTypeEquals(h, a, E) THEN Answer(FALSE)
    ELSE IF h[a].n # h[E].n THEN Answer(FALSE)
    ELSE equals(h, h[a].ref, h[E].ref, stk, ub)

\* the loop over the fields of RSExportRecordType::equals, from field i on
RecordEqualsFields(h, a, E, i, stk, ub) ==
    IF i > Len(h[a].fields) THEN Answer(TRUE)
    ELSE Local(equals(h, h[a].fields[i].type, h[E].fields[i].type, stk, ub),
               LAMBDA e :
        IF ~e.returns THEN NoReturn
        ELSE IF ~e.ret THEN Answer(FALSE)
        ELSE RecordEqualsFields(h, a, E, i + 1, stk, ub))

\* RSExportRecordType::equals
RecordEquals(h, a, E, stk, ub) ==
    IF ~RSExportTypeEquals(h, a, E) THEN Answer(FALSE)
    ELSE IF Len(h[E].fields) # Len(h[a].fields) THEN Answer(FALSE)
    ELSE RecordEqualsFields(h, a, E, 1, stk, ub)

\* the virtual call ET->equals(E)
equals(h, a, E, stk, ub) ==
    IF << a, E >> \in stk THEN NoReturn
    ELSE IF h[a].cls = "Freed" \/ h[E].cls = "Freed" THEN Answer(ub)
    ELSE CASE h[a].cls = "Primitive" -> Answer(PrimitiveEquals(h, a, E))
           [] h[a].cls = "Vector" -> Answer(VectorEquals(h, a, E))
           [] h[a].cls = "Matrix" -> Answer(MatrixEquals(h, a, E))
           [] h[a].cls = "Pointer" ->
                PointerEquals(h, a, E, stk \cup {<< a, E >>}, ub)
           [] h[a].cls = "ConstantArray" ->
                ConstantArrayEquals(h, a, E, stk \cup {<< a, E >>}, ub)
           [] h[a].cls = "Record" ->
                RecordEquals(h, a, E, stk \cup {<< a, E >>}, ub)

(***************************************************************************)
(* Descriptors.  convertToSpecType returns [h, ST, returns]: the heap with *)
(* the descriptors cached on the way, the descriptor (NoSpecType for NULL) *)
(* and whether the call returns; getSpecType returns [h, p, returns] with  *)
(* p the pointer to the descriptor.  stk holds the export types whose      *)
(* conversion is on the call stack.  getSpecType on a deleted object is    *)
(* undefined: ub says whether the read of the freed storage yields a       *)
(* pointer or null.                                                        *)
(***************************************************************************)
RECURSIVE getSpecType(_, _, _, _)
RECURSIVE convertToSpecType(_, _, _, _)
RECURSIVE RecordConvertFields(_, _, _, _, _)

Converted(h, ST) == [h |-> h, ST |-> ST, returns |-> TRUE]
Unfinished(h) == [h |-> h, ST |-> NoSpecType, p |-> NULL, returns |-> FALSE]

\* RSExportPrimitiveType::convertToSpecType
PrimitiveConvertToSpecType(h, a) ==
    Descriptor("Primitive", EmptyName, h[a].dt, 0, NULL, << >>)

\* RSExportVectorType::convertToSpecType
VectorConvertToSpecType(h, a) ==
    Descriptor("Vector", EmptyName, h[a].dt, h[a].n, NULL, << >>)

\* RSExportMatrixType::convertToSpecType
MatrixConvertToSpecType(h, a) ==
    Descriptor("Matrix", EmptyName,
               CASE h[a].n = 2 -> "RSMatrix2x2"
                 [] h[a].n = 3 -> "RSMatrix3x3"
                 [] h[a].n = 4 -> "RSMatrix4x4"
                 [] OTHER -> "Unknown",
               0, NULL, << >>)

\* Mutant: the pointee's descriptor is not tested for NULL.
PointerConvertToSpecType_NoNullTest(h, a, stk, ub) ==
    Local(getSpecType(h, h[a].ref, stk, ub), LAMBDA g :
        IF ~g.returns THEN Unfinished(g.h)
        ELSE Converted(g.h, Descriptor("Pointer", EmptyName, "Unknown", 0, g.p, << >>)))

\* RSExportPointerType::convertToSpecType
PointerConvertToSpecType(h, a, stk, ub) ==
    Local(getSpecType(h, h[a].ref, stk, ub), LAMBDA g :
        IF ~g.returns THEN Unfinished(g.h)
        ELSE IF g.p # NULL
        THEN Converted(g.h, Descriptor("Pointer", EmptyName, "Unknown", 0, g.p, << >>))
        ELSE Converted(g.h, NoSpecType))

\* RSExportConstantArrayType::convertToSpecType
ConstantArrayConvertToSpecType(h, a, stk, ub) ==
    Local(getSpecType(h, h[a].ref, stk, ub), LAMBDA g :
        IF ~g.returns THEN Unfinished(g.h)
        ELSE IF g.p # NULL
        THEN Converted(g.h, Descriptor("ConstantArray", EmptyName, "Unknown", h[a].n,
                                       g.p, << >>))
        ELSE Converted(g.h, NoSpecType))

\* the field loop of RSExportRecordType::convertToSpecType from field i on;
\* h[a].mSpecType is ST, set temporarily
RecordConvertFields(h, a, i, stk, ub) ==
    IF i > Len(h[a].fields) THEN Converted(h, h[a].mSpecType)
    ELSE Local(getSpecType(h, h[a].fields[i].type, stk, ub), LAMBDA g :
        IF ~g.returns THEN Unfinished(g.h)
        ELSE RecordConvertFields(
                 [g.h EXCEPT ![a].mSpecType.fields =
                     Append(@, [name |-> h[a].fields[i].name, type |-> g.p,
                                dk |-> IF g.h[h[a].fields[i].type].cls
                                            \in {"Primitive", "Vector"}
                                       THEN "getKind" ELSE "User"])],
                 a, i + 1, stk, ub))

\* RSExportRecordType::convertToSpecType
RecordConvertToSpecType(h, a, stk, ub) ==
    RecordConvertFields(
        [h EXCEPT ![a].mSpecType =
            Descriptor("Record", h[a].name, "Unknown", Len(h[a].fields), NULL, << >>)],
        a, 1, stk, ub)

\* the virtual call ET->convertToSpecType()
convertToSpecType(h, a, stk, ub) ==
    CASE h[a].cls = "Primitive" -> Converted(h, PrimitiveConvertToSpecType(h, a))
      [] h[a].cls = "Vector" -> Converted(h, VectorConvertToSpecType(h, a))
      [] h[a].cls = "Matrix" -> Converted(h, MatrixConvertToSpecType(h, a))
      [] h[a].cls = "Pointer" -> PointerConvertToSpecType(h, a, stk, ub)
      [] h[a].cls = "ConstantArray" -> ConstantArrayConvertToSpecType(h, a, stk, ub)
      [] h[a].cls = "Record" -> RecordConvertToSpecType(h, a, stk, ub)

\* RSExportType::getSpecType: the cached descriptor, converted on first request
getSpecType(h, a, stk, ub) ==
    IF h[a].cls = "Freed"
    THEN [h |-> h, p |-> IF ub THEN a ELSE NULL, returns |-> TRUE]
    ELSE IF h[a].mSpecType # NoSpecType THEN [h |-> h, p |-> a, returns |-> TRUE]
    ELSE IF a \in stk THEN Unfinished(h)
    ELSE Local(convertToSpecType(h, a, stk \cup {a}, ub), LAMBDA c :
        IF ~c.returns THEN Unfinished(c.h)
        ELSE IF c.ST = NoSpecType
        THEN [h |-> [c.h EXCEPT ![a].mSpecType = NoSpecType], p |-> NULL,
              returns |-> TRUE]
        ELSE [h |-> [c.h EXCEPT ![a].mSpecType = c.ST], p |-> a, returns |-> TRUE])

(***************************************************************************)
(* The state machine.                                                      *)
(***************************************************************************)
NoCall == [T |-> NoType, ret |-> NULL, ok |-> FALSE, exp |-> FALSE, name |-> EmptyName,
           hit |-> FALSE, before |-> EmptyRegistry, news |-> << >>, interned |-> << >>, deleted |-> {},
           returned |-> {},
           rep |-> << >>]
NoPrev == [T |-> NoType, ret |-> NULL]
NoChk  == [T |-> NoType, Diags |-> FALSE, SM |-> FALSE, VD |-> NoType,
           ret |-> NoType, rep |-> << >>, asrt |-> FALSE,
           expanded |-> << >>, ovf |-> FALSE]
\* op: "keep", "equals" or "spec"; a, b: the objects it was called on; ret: the
\* bool keep() returned; eq, rev: the outcome of a->equals(b) and b->equals(a);
\* st: the pointer getSpecType() returned, returns: whether it returned,
\* converted: whether it had to convert, produced: the pointee, element and
\* field types whose getSpecType() gave a descriptor; kept: the kept objects
\* before the call; n: the number of such calls so far.  For op "name": T the
\* host type, name the name GetTypeName returned, index the index at which a
\* vector's name table was read, oob whether that read was outside the table.
NoQuery == [op |-> "", a |-> NULL, b |-> NULL, ret |-> FALSE, eq |-> NoReturn,
            rev |-> NoReturn, st |-> NULL, returns |-> FALSE, converted |-> FALSE,
            produced |-> {}, kept |-> {}, n |-> 0,
            T |-> NoType, name |-> EmptyName, index |-> 0, oob |-> FALSE]

InitWith(shapes) ==
    /\ mshape \in shapes
    /\ astTypes = HostType
    /\ tuDecls = ModuleDecls[mshape]
    /\ reg = EmptyRegistry
    /\ heap = << >>
    /\ calls = 0
    /\ call = NoCall
    /\ prev = NoPrev
    /\ chk = NoChk
    /\ query = NoQuery

\* One call RSExportType::Create(Context, T) by the compiler driver.
RSExportTypeCreate(T, reuse) ==
    /\ calls < MaxCalls
    /\ LET c0 == [reg |-> reg, heap |-> heap, ret |-> NULL, reuse |-> reuse,
                  rep |-> << >>, news |-> << >>, interned |-> << >>,
                  deleted |-> {}, returned |-> {}, asrt |-> FALSE]
       IN  \E nt \in {NormalizeType(T, FALSE, FALSE, NoType)}, c \in {Create(c0, T)} :
           /\ reg' = c.reg
           /\ heap' = c.heap
           /\ call' = [T |-> T, ret |-> c.ret, ok |-> nt.ok,
                       exp |-> (nt.exp.ret # NoType), name |-> nt.name,
                       hit |-> (nt.ok /\ nt.name \in DOMAIN reg), before |-> reg,
                       news |-> c.news, interned |-> c.interned,
                       deleted |-> c.deleted, returned |-> c.returned, rep |-> c.rep]
           /\ prev' = [T |-> call.T, ret |-> call.ret]
    /\ calls' = calls + 1
    /\ UNCHANGED <<mshape, astTypes, tuDecls, chk, query>>

\* One call TypeExportable(T, Diags, SM, VD).
CheckTypeExportable(T, Diags, SM, VD) ==
    /\ chk.T = NoType
    /\ \E e \in {TypeExportable(T, Diags, SM, VD)} :
           chk' = [T |-> T, Diags |-> Diags, SM |-> SM, VD |-> VD,
                   ret |-> e.ret, rep |-> e.rep, asrt |-> e.asrt,
                   expanded |-> e.expanded, ovf |-> e.ovf]
    /\ UNCHANGED <<mshape, astTypes, tuDecls, reg, heap, calls, call, prev, query>>

KeptIn(h) == {a \in 1 .. Len(h) : h[a].cls # "Freed" /\ h[a].kept}

\* One call ET->keep() by the driver on an export type of the context.
KeepExportType(a, stale) ==
    /\ query.n < MaxQueries
    /\ \E k \in {keep(heap, a, stale)} :
           /\ heap' = k.h
           /\ query' = [NoQuery EXCEPT !.op = "keep", !.a = a, !.ret = k.ret,
                                       !.kept = KeptIn(heap), !.n = query.n + 1]
    /\ UNCHANGED <<mshape, astTypes, tuDecls, reg, calls, call, prev, chk>>

\* the objects of the context that are not deleted
LiveAddresses == {a \in 1 .. Len(heap) : heap[a].cls # "Freed"}

\* The driver compares two export types of the context, either way round.
EqualsExportType(a, b, ub) ==
    /\ query.n < MaxQueries
    /\ query' = [NoQuery EXCEPT !.op = "equals", !.a = a, !.b = b,
                                !.eq = equals(heap, a, b, {}, ub),
                                !.rev = equals(heap, b, a, {}, ub),
                                !.n = query.n + 1]
    /\ UNCHANGED <<mshape, astTypes, tuDecls, reg, heap, calls, call, prev, chk>>

\* the export types an object refers to: pointee, element type, field types
RefsOf(a) ==
    CASE heap[a].cls \in {"Pointer", "ConstantArray"} -> {heap[a].ref}
      [] heap[a].cls = "Record" ->
            {heap[a].fields[i].type : i \in 1 .. Len(heap[a].fields)}
      [] OTHER -> {}

\* One call ET->getSpecType() by the driver on an export type of the context.
GetSpecTypeOf(a, ub) ==
    /\ query.n < MaxQueries
    /\ \E g \in {getSpecType(heap, a, {}, ub)} :
           /\ heap' = IF g.returns THEN g.h ELSE heap
           /\ query' = [NoQuery EXCEPT !.op = "spec", !.a = a, !.st = g.p,
                                       !.returns = g.returns,
                                       !.converted = (heap[a].mSpecType = NoSpecType),
                                       !.produced = {x \in RefsOf(a) :
                                            IF heap[x].cls = "Freed" THEN ub
                                            ELSE g.h[x].mSpecType # NoSpecType},
                                       !.n = query.n + 1]
    /\ UNCHANGED <<mshape, astTypes, tuDecls, reg, calls, call, prev, chk>>

\* a read outside the name table is undefined: it may yield any string, the
\* empty one included
OutOfTableReads == {OutOfTableName, EmptyName}

\* One call RSExportType::GetTypeName(T) by the driver on a type of the module.
GetTypeNameOf(T, read) ==
    /\ query.n < MaxQueries
    /\ \E TypeName \in {GetTypeName(T)} :
           query' = [NoQuery EXCEPT !.op = "name", !.T = T,
                                    !.name = IF TypeName = OutOfTableName
                                             THEN read ELSE TypeName,
                                    !.index = IF isExtVectorType(T)
                                              THEN VectorNameIndex(
                                                       astTypes[GET_CANONICAL_TYPE(T)].n)
                                              ELSE 0,
                                    !.oob = (TypeName = OutOfTableName),
                                    !.n = query.n + 1]
    /\ UNCHANGED <<mshape, astTypes, tuDecls, reg, heap, calls, call, prev, chk>>

\* what a call through a dangling pointer does is open only when there is one
DanglingChoices == IF FreedAddresses(heap) = {} THEN {FALSE} ELSE BOOLEAN

\* operator new can hand out an address again only when one was given back
ReuseChoices == IF FreedAddresses(heap) = {} THEN {FALSE} ELSE BOOLEAN

\* The registry runs: the driver exports a mix of types of every class.
CreateTypes ==
    {"int", "int2", "int_a2", "pint", "ppint", "pppint", "ppwchar",
     "P2", "Bf", "rselem", "mat2", "M", "Deep", "RA", "I2"}
CoreShapes == {"good", "extra", "undef"}

Init == InitWith(CoreShapes)
Next == \E T \in CreateTypes, reuse \in ReuseChoices : RSExportTypeCreate(T, reuse)
Spec == Init /\ [][Next]_vars

\* The array runs: the driver exports arrays and what contains them.
ArrayTypes ==
    {"int_a2", "int_a2_a3", "int_inc_a2", "int3_a1", "int3_a2", "P2_a2", "RMD_a2",
     "pint_a2p", "pint_a2_a3", "RA", "RMD", "RRMD"}

InitArray == InitWith(CoreShapes)
NextArray == \E T \in ArrayTypes, reuse \in ReuseChoices : RSExportTypeCreate(T, reuse)
SpecArray == InitArray /\ [][NextArray]_vars

\* The special-name runs: structs named like matrix and object types, in every
\* form the matrix structs may take, and structs with bit-fields.
SpecialTypes == {"mat2", "mat3", "mat4", "pmat2", "M", "Deep", "Bf", "pBf", "rselem", "rsalloc"}

InitSpecial == InitWith(MatrixShapes)
NextSpecial == \E T \in SpecialTypes, reuse \in ReuseChoices : RSExportTypeCreate(T, reuse)
SpecSpecial == InitSpecial /\ [][NextSpecial]_vars

\* The keep runs: the driver exports types and keeps export types it holds.
KeepTypes == {"M", "Deep", "int2", "pint", "RA"}

InitKeep == InitWith(CoreShapes)
NextKeep ==
    \/ \E T \in KeepTypes, reuse \in ReuseChoices : RSExportTypeCreate(T, reuse)
    \/ \E a \in LiveAddresses, stale \in DanglingChoices : KeepExportType(a, stale)
SpecKeep == InitKeep /\ [][NextKeep]_vars

\* The equality runs: the driver exports types and compares export types.
EqualsTypes == {"M", "Deep", "int2", "pint", "ppint", "RA"}

InitEquals == InitWith(CoreShapes)
NextEquals ==
    \/ \E T \in EqualsTypes, reuse \in ReuseChoices : RSExportTypeCreate(T, reuse)
    \/ \E a \in LiveAddresses, b \in LiveAddresses, ub \in DanglingChoices :
            a <= b /\ EqualsExportType(a, b, ub)
SpecEquals == InitEquals /\ [][NextEquals]_vars

\* The descriptor runs: the driver exports types and asks for their descriptors.
SpecTypeTypes == {"M", "pM", "M_a2", "Deep", "ppint", "RA"}

InitSpecType == InitWith(CoreShapes)
NextSpecType ==
    \/ \E T \in SpecTypeTypes, reuse \in ReuseChoices : RSExportTypeCreate(T, reuse)
    \/ \E a \in LiveAddresses, ub \in DanglingChoices : GetSpecTypeOf(a, ub)
SpecSpecType == InitSpecType /\ [][NextSpecType]_vars

\* The name runs: the driver asks for the names of types of the module.
InitName == InitWith(CoreShapes)
NextName == \E T \in TypeIds, read \in OutOfTableReads : GetTypeNameOf(T, read)
SpecName == InitName /\ [][NextName]_vars

\* The check runs: one exportability check of any type of the module.
VarNames == {NoType, "gVar"}

InitCheck == InitWith(MatrixShapes)
NextCheck == \E T \in TypeIds, Diags \in BOOLEAN, SM \in BOOLEAN, VD \in VarNames :
                CheckTypeExportable(T, Diags, SM, VD)
SpecCheck == InitCheck /\ [][NextCheck]_vars

(***************************************************************************)
(* Properties of the registry runs.                                        *)
(***************************************************************************)
Created == calls > 0
IsConstantArrayType(T) == TypeClassOf(T) = "ConstantArray"
SameTypeTwice ==
    calls >= 2 /\ GET_CANONICAL_TYPE(call.T) = GET_CANONICAL_TYPE(prev.T)

C2_OneObjectPerName ==
    \A a \in LiveAddresses :
        ~startswith(heap[a].name, DUMMY_RS_TYPE_NAME_PREFIX) =>
            (heap[a].name \in DOMAIN reg /\ reg[heap[a].name] = a)

\* C3: a type is in the registry only if its construction succeeded: after a
\* Create that returned NULL the registry has no entry under the type's name,
\* and every entry leads to a live object of that name.
C3_NoEntryForFailedCreate ==
    /\ (Created /\ call.ok /\ call.ret = NULL) => call.name \notin DOMAIN reg
    /\ \A n \in DOMAIN reg :
          heap[reg[n]].cls # "Freed" /\ heap[reg[n]].name = n

\* The registry entries that the latest call inserted for export types whose
\* creation succeeded: their object was returned by a Create within the call.
SiblingEntries ==
    {call.interned[i] : i \in {j \in 1 .. Len(call.interned) :
                                  call.interned[j].addr \in call.returned}}

\* C4: after a Create that failed, every export type interned during it for an
\* earlier field (and for that field's nested types) is still registered under
\* its name at the same live object, and every entry the registry had before
\* the call is unchanged.
C4_FailedCreateKeepsSiblings ==
    (Created /\ call.ret = NULL) =>
        /\ \A e \in SiblingEntries :
              /\ e.name \in DOMAIN reg /\ reg[e.name] = e.addr
              /\ heap[e.addr].cls # "Freed" /\ heap[e.addr].name = e.name
        /\ \A n \in DOMAIN call.before :
              n \in DOMAIN reg /\ reg[n] = call.before[n]

\* Deep fails at its second field after P2, int and float were interned for the first
C4_Witness ==
    /\ Created /\ call.T = "Deep" /\ call.ret = NULL
    /\ \E e \in SiblingEntries : e.name = "P2" /\ heap[e.addr].cls = "Record"
    /\ \E e \in SiblingEntries : e.name = "float"
    /\ call.deleted # {}

(***************************************************************************)
(* Properties of the array runs.                                           *)
(***************************************************************************)
RECURSIVE ContainsMultidimensionalArray(_, _)
\* T is an array of arrays, or holds one as a pointee or as a field, at any
\* depth, of the records whose fields the check visits (seen: records on the path).
ContainsMultidimensionalArray(T0, seen) ==
    LET T == GET_CANONICAL_TYPE(T0)
    IN  CASE getTypeClass(T) = "ConstantArray" ->
                \/ isArrayType(astTypes[T].to)
                \/ ContainsMultidimensionalArray(astTypes[T].to, seen)
          [] getTypeClass(T) = "Pointer" ->
                /\ TypeClassOf(astTypes[T].to) # "Pointer"
                /\ ContainsMultidimensionalArray(astTypes[T].to, seen)
          [] getTypeClass(T) = "Record" ->
                /\ T \notin seen
                /\ GetRSSpecificType(T) = "Unknown"
                /\ \E i \in 1 .. Len(RecordDecl(astTypes[T].decl).fields) :
                      ContainsMultidimensionalArray(
                          RecordDecl(astTypes[T].decl).fields[i].type, seen \cup {T})
          [] OTHER -> FALSE

Checked == chk.T # NoType
Accepted == chk.ret # NoType

RECURSIVE PointerInsideRecord(_, _, _)
\* A pointer type occurs inside a record that the check of T enters: as a field,
\* in a nested record's field or as the element of an array field.
PointerInsideRecord(T0, inRecord, seen) ==
    LET T == GET_CANONICAL_TYPE(T0)
    IN  CASE getTypeClass(T) = "Pointer" ->
                \/ inRecord
                \/ /\ TypeClassOf(astTypes[T].to) # "Pointer"
                   /\ PointerInsideRecord(astTypes[T].to, FALSE, seen)
          [] getTypeClass(T) = "ConstantArray" ->
                PointerInsideRecord(astTypes[T].to, inRecord, seen)
          [] getTypeClass(T) = "Record" ->
                /\ T \notin seen
                /\ GetRSSpecificType(T) = "Unknown"
                /\ \E i \in 1 .. Len(RecordDecl(astTypes[T].decl).fields) :
                      PointerInsideRecord(
                          RecordDecl(astTypes[T].decl).fields[i].type, TRUE, seen \cup {T})
          [] OTHER -> FALSE

\* C6: a type with a pointer inside a record under check is rejected, also
\* when the record is reached through a top-level pointer.
C6_PointerInsideRecordRejected ==
    (Checked /\ PointerInsideRecord(chk.T, FALSE, {})) => ~Accepted

\* struct S { struct S *next; int v; } reached through a top-level pointer
C6_Witness ==
    /\ Checked /\ chk.T = "pSL" /\ ~Accepted
    /\ chk.Diags /\ chk.SM /\ Len(chk.rep) = 1

PointeeOf(T) == GET_POINTEE_TYPE(GET_CANONICAL_TYPE(T))
PointeeExportable ==
    TypeExportable(PointeeOf(chk.T), chk.Diags, chk.SM, chk.VD).ret # NoType

\* C7 (as claimed): a top-level pointer is accepted whenever its pointee is
\* exportable, whatever the kind of the pointee, constant arrays included.
C7_PointerToExportableAccepted ==
    (Checked /\ TypeClassOf(chk.T) = "Pointer" /\ PointeeExportable) => Accepted

\* C7 (amended): a top-level pointer is accepted whenever its pointee is
\* exportable and is not an array type.
C7_PointerToExportableNonArrayAccepted ==
    (Checked /\ TypeClassOf(chk.T) = "Pointer" /\ PointeeExportable
        /\ ~isArrayType(PointeeOf(chk.T)))
    => chk.ret = GET_CANONICAL_TYPE(chk.T)

\* a pointer to an exportable record
C7_Witness ==
    /\ Checked /\ chk.T = "pP2" /\ PointeeExportable /\ chk.ret = "pP2"

\* C8: an array of width 3 vectors over a supported builtin is accepted exactly
\* when its length is 1; an array of width 2 or 4 vectors is accepted at any length.
C8_VectorArrayWidthRule ==
    LET CAT == GET_CANONICAL_TYPE(chk.T)
        EVT == GET_CANONICAL_TYPE(astTypes[CAT].to)
        Base == GET_CANONICAL_TYPE(astTypes[EVT].to)
    IN  (Checked /\ getTypeClass(CAT) = "ConstantArray" /\ getTypeClass(EVT) = "ExtVector"
            /\ getTypeClass(Base) = "Builtin" /\ astTypes[Base].bk \in SupportedBuiltin)
        => /\ astTypes[EVT].n = 3 => (Accepted <=> astTypes[CAT].n = 1)
           /\ astTypes[EVT].n \in {2, 4} => Accepted

\* int3[1] is accepted
C8_Witness ==
    /\ Checked /\ chk.T = "int3_a1" /\ Accepted

(***************************************************************************)
(* Properties of the special-name runs.                                    *)
(***************************************************************************)
StructDecl(T) == RecordDecl(astTypes[GET_CANONICAL_TYPE(T)].decl)

HasBitField(T) ==
    /\ TypeClassOf(T) = "Record"
    /\ \E i \in 1 .. Len(StructDecl(T).fields) : StructDecl(T).fields[i].bitfield

\* C9 (as claimed): a struct with a bit-field is accepted neither by the
\* exportability check nor by Create, whatever its name.
C9_BitFieldStructRejected ==
    (Created /\ HasBitField(call.T)) => (~call.exp /\ call.ret = NULL)

\* C9 (amended): a struct with a bit-field whose name is not the name of an RS
\* object or matrix type is accepted neither by the check nor by Create.
C9_BitFieldStructRejectedUnlessRSName ==
    (Created /\ HasBitField(call.T) /\ GetRSSpecificType(call.T) = "Unknown")
    => (~call.exp /\ call.ret = NULL)

\* struct Bf { int a; int b : 3; } after an earlier call
C9_Witness ==
    /\ calls >= 2 /\ call.T = "Bf" /\ HasBitField(call.T)
    /\ ~call.exp /\ call.ret = NULL

IsMatrixStruct(T) ==
    TypeClassOf(T) = "Record" /\ IsRSMatrixType(GetRSSpecificType(T))

DimOf(T) ==
    LET dt == GetRSSpecificType(T)
    IN  IF dt = "RSMatrix2x2" THEN 2 ELSE IF dt = "RSMatrix3x3" THEN 3 ELSE 4

\* The struct has exactly one field, a constant-size array of float of length d*d.
\* direct: the field's declared type is itself the array type, not a typedef name.
MatrixShaped(T, d, direct) ==
    LET RD == StructDecl(T)
        FT == IF direct THEN RD.fields[1].type ELSE GET_CANONICAL_TYPE(RD.fields[1].type)
        Elem == GET_CANONICAL_TYPE(astTypes[FT].to)
    IN  /\ Len(RD.fields) = 1
        /\ getTypeClass(FT) = "ConstantArray"
        /\ getTypeClass(Elem) = "Builtin" /\ astTypes[Elem].bk = "Float"
        /\ astTypes[FT].n = d * d

RECURSIVE ReachableFrom(_)
\* the closure of a set of objects under RefsOf
ReachableFrom(S) ==
    LET more == S \cup UNION {RefsOf(a) : a \in S}
    IN  IF more = S THEN S ELSE ReachableFrom(more)

\* C11: keep() is idempotent over the type graph: once keep() was called on an
\* export type T, T and every export type reachable from it through pointee,
\* element and field references are kept, and a keep() on a type that is kept
\* already leaves the kept set as it was.
C11_KeepIdempotent ==
    query.op = "keep" =>
        /\ \A b \in ReachableFrom({query.a}) :
              heap[b].cls # "Freed" => heap[b].kept
        /\ query.a \in query.kept => KeptIn(heap) = query.kept

(***************************************************************************)
(* Properties of the equality runs.                                        *)
(***************************************************************************)
RECURSIVE SameShape(_, _, _)
\* a and b have the same class and the same shape; seen holds the pairs whose
\* comparison is under way
SameShape(a, b, seen) ==
    IF << a, b >> \in seen THEN TRUE
    ELSE LET s == seen \cup {<< a, b >>}
             A == heap[a]
             B == heap[b]
         IN  /\ A.cls = B.cls
             /\ CASE A.cls = "Primitive" -> A.dt = B.dt
                  [] A.cls = "Vector" -> A.dt = B.dt /\ A.n = B.n
                  [] A.cls = "Matrix" -> A.n = B.n
                  [] A.cls = "Pointer" -> SameShape(A.ref, B.ref, s)
                  [] A.cls = "ConstantArray" ->
                        A.n = B.n /\ SameShape(A.ref, B.ref, s)
                  [] A.cls = "Record" ->
                        /\ Len(A.fields) = Len(B.fields)
                        /\ \A i \in 1 .. Len(A.fields) :
                              SameShape(A.fields[i].type, B.fields[i].type, s)
                  [] OTHER -> FALSE

\* C12: equals() is reflexive and symmetric, and two export types are equal
\* exactly when they have the same class and the same shape, whatever their
\* names, field names, offsets, packing and allocation size.
C12_EqualsIsShapeEquality ==
    query.op = "equals" =>
        /\ query.eq.returns /\ query.rev.returns
        /\ query.eq.ret = query.rev.ret
        /\ query.a = query.b => query.eq.ret
        /\ query.eq.ret <=> SameShape(query.a, query.b, {})

(***************************************************************************)
(* Properties of the check runs: termination and the checking set.         *)
(***************************************************************************)
\* C13: the exportability check returns for every host type, the records that
\* contain themselves directly or through records and arrays included, and it
\* goes through the fields of each record type at most once per top-level check.
C13_CheckExpandsEachRecordOnce ==
    Checked =>
        /\ ~chk.ovf
        /\ \A i, j \in 1 .. Len(chk.expanded) :
              chk.expanded[i] = chk.expanded[j] => i = j

\* LA holds an array of LB and LB holds LA: both were gone through, once
C13_Witness ==
    /\ Checked /\ chk.T = "LA" /\ Accepted
    /\ chk.expanded = << "LA", "LB" >>

(***************************************************************************)
(* Properties of the descriptor runs.                                      *)
(***************************************************************************)
\* the latest call was a getSpecType() that converted and returned
ConvertedNow == query.op = "spec" /\ query.converted /\ query.returns

\* getSpecType() of the nested type x gave a descriptor during the latest call
NestedProduced(x) == x \in query.produced

\* C14: the conversion of a Record to a descriptor fails as a whole whenever
\* the descriptor of at least one field could not be produced.
C14_RecordFailsWhenFieldFails ==
    (/\ ConvertedNow /\ heap[query.a].cls = "Record"
     /\ \E i \in 1 .. Len(heap[query.a].fields) :
           ~NestedProduced(heap[query.a].fields[i].type))
    => query.st = NULL

\* C15: the conversion of a Pointer returns no descriptor exactly when the
\* descriptor of its pointee could not be produced, that of a ConstantArray
\* exactly when the descriptor of its element type could not be produced;
\* otherwise the descriptor carries the class tag, the nested descriptor and,
\* for arrays, the length.
C15_NestedFailurePropagates ==
    (ConvertedNow /\ heap[query.a].cls \in {"Pointer", "ConstantArray"}) =>
        LET A == heap[query.a]
        IN  /\ query.st = NULL <=> ~NestedProduced(A.ref)
            /\ query.st # NULL =>
                  /\ A.mSpecType.cls = A.cls
                  /\ A.mSpecType.nested = A.ref
                  /\ A.cls = "ConstantArray" => A.mSpecType.n = A.n

\* the descriptor of int[2] inside RA, and a pointer whose pointee gave none
C15_Witness ==
    /\ ConvertedNow
    /\ heap[query.a].cls = "Pointer" /\ query.st = NULL
    /\ \E b \in LiveAddresses :
          /\ heap[b].cls = "ConstantArray" /\ heap[b].mSpecType.cls = "ConstantArray"
          /\ heap[b].mSpecType.n = 2

(***************************************************************************)
(* Properties of the check runs: diagnostics.                              *)
(***************************************************************************)
\* C16: whenever the check rejects a type while Diags and SM are supplied and a
\* variable or a record gives the context, at least one error was reported:
\* no rejection is silent.
C16_RejectionReported ==
    (/\ Checked /\ ~Accepted /\ chk.Diags /\ chk.SM
     /\ (chk.VD # NoType \/ TypeClassOf(chk.T) = "Record"))
    => Len(chk.rep) >= 1

(***************************************************************************)
(* Properties of the registry and descriptor runs: pointers and records.   *)
(***************************************************************************)
\* C17: in every state of the registry the pointee of every Pointer export type
\* is an export type whose class is not Pointer.
C17_PointeeIsNoPointer ==
    \A a \in LiveAddresses :
        heap[a].cls = "Pointer" =>
            /\ heap[a].ref \in LiveAddresses
            /\ heap[heap[a].ref].cls # "Pointer"

\* the latest call constructed the record export type of the struct call.T
RecordCreated ==
    /\ Created /\ TypeClassOf(call.T) = "Record" /\ call.ret # NULL
    /\ \E i \in 1 .. Len(call.news) : call.news[i] = call.ret
    /\ heap[call.ret].cls = "Record"

\* C18: after a successful RSExportRecordType::Create the record has one field
\* entry per host field, in declaration order, the i-th with the i-th host
\* field's name and its layout offset in bytes; allocSize is the layout size in
\* bytes; no entry stems from a bit-field.
C18_FieldsMirrorHostLayout ==
    RecordCreated =>
        LET RD == StructDecl(call.T)
            ERT == heap[call.ret]
        IN  /\ Len(ERT.fields) = Len(RD.fields)
            /\ \A i \in 1 .. Len(RD.fields) :
                  /\ ERT.fields[i].name = RD.fields[i].name
                  /\ ERT.fields[i].offset = RD.fields[i].offBits \div 8
                  /\ ~RD.fields[i].bitfield
            /\ ERT.allocSize = RD.sizeBits \div 8

\* Deep { P2 p; M m; int z; } of 32 bytes, z at byte 28
C18_Witness ==
    /\ RecordCreated /\ call.T = "Deep"
    /\ Len(heap[call.ret].fields) = 3
    /\ heap[call.ret].fields[3].name = "z" /\ heap[call.ret].fields[3].offset = 28
    /\ heap[call.ret].allocSize = 32

IsPointerToPointer(T) ==
    TypeClassOf(T) = "Pointer" /\ getTypeClass(PointeeOf(T)) = "Pointer"

\* C20: every pointer to a pointer, whatever the innermost pointee, is accepted
\* by the check, and Create on it returns a Pointer export type whose pointee
\* is the int primitive.
C20_PointerToPointerCreated ==
    (Created /\ IsPointerToPointer(call.T)) =>
        /\ call.exp
        /\ call.ret # NULL
        /\ heap[call.ret].cls = "Pointer"
        /\ heap[heap[call.ret].ref].cls = "Primitive"
        /\ heap[heap[call.ret].ref].name = "int"

(***************************************************************************)
(* Properties of the check runs: records reachable from the checked type.  *)
(***************************************************************************)
\* a struct that the check goes through field by field
PlainRecord(T) == getTypeClass(T) = "Record" /\ GetRSSpecificType(T) = "Unknown"

\* the types one step below T: the fields of a plain record, the element of an
\* array, the pointee of a pointer unless that is a pointer again
TypesBelow(T) ==
    CASE PlainRecord(T) ->
            {GET_CANONICAL_TYPE(StructDecl(T).fields[i].type) :
                i \in 1 .. Len(StructDecl(T).fields)}
      [] getTypeClass(T) = "ConstantArray" -> {GET_CONSTANT_ARRAY_ELEMENT_TYPE(T)}
      [] getTypeClass(T) = "Pointer" ->
            IF getTypeClass(GET_POINTEE_TYPE(T)) = "Pointer" THEN {}
            ELSE {GET_POINTEE_TYPE(T)}
      [] OTHER -> {}

RECURSIVE TypesUnder(_)
TypesUnder(S) ==
    LET S2 == S \cup UNION {TypesBelow(T) : T \in S}
    IN  IF S2 = S THEN S ELSE TypesUnder(S2)

\* the type of the field is of a kind the check supports inside a record
SupportedFieldType(FT) ==
    /\ getTypeClass(FT) \in {"Builtin", "Record", "ExtVector", "ConstantArray"}
    /\ getTypeClass(FT) = "Builtin" => astTypes[FT].bk \in SupportedBuiltin
    /\ getTypeClass(FT) = "Record" => ~isUnionType(FT)

\* C19: when the check accepts a type, every plain record reachable from it
\* (through fields, array elements and pointees) has gone through the field
\* loop, and none of its fields is a bit-field, a pointer, a union or of an
\* unsupported kind: a record found again in the checking set does not make
\* the check accept a type with such a field.
C19_AcceptedRecordsAreSound ==
    Accepted =>
        \A R \in TypesUnder({GET_CANONICAL_TYPE(chk.T)}) :
            PlainRecord(R) =>
                /\ \E k \in 1 .. Len(chk.expanded) : chk.expanded[k] = R
                /\ \A i \in 1 .. Len(StructDecl(R).fields) :
                      /\ ~StructDecl(R).fields[i].bitfield
                      /\ SupportedFieldType(GET_CANONICAL_TYPE(StructDecl(R).fields[i].type))

\* struct Loop { struct Loop l; myint v; } is accepted: its field l is found
\* in the checking set
C19_Witness ==
    /\ Accepted /\ chk.T = "Loop" /\ chk.expanded = << "Loop" >>
    /\ "Loop" \in TypesBelow("Loop")

\* struct LBad { struct LBad l; wchar_t w; }: the field l is found in the
\* checking set, the field w then fails the check
C19_WitnessRejected ==
    /\ Checked /\ ~Accepted /\ chk.T = "LBad" /\ chk.expanded = << "LBad" >>

(***************************************************************************)
(* Properties of the registry runs: the registry over a sequence of calls. *)
(***************************************************************************)
\* the object at address a is after the step the object it was before
SameObjectAfter(a) ==
    heap'[a].cls = heap[a].cls /\ heap'[a].name = heap[a].name

\* C21: the registry only grows: over every Create, successful or failed, each
\* name in the registry stays in it, mapped to the same object, and an object
\* constructed under a name already present does not replace the entry.
C21_RegistryOnlyGrows ==
    [][\A n \in DOMAIN reg :
          /\ n \in DOMAIN reg'
          /\ reg'[n] = reg[n]
          /\ SameObjectAfter(reg[n])]_vars

(***************************************************************************)
(* Properties of the check runs: the number of diagnostics.                *)
(***************************************************************************)
\* C22: one call of TypeExportable reports at most one diagnostic: the path
\* that reports returns the rejection, and no caller up the recursion reports
\* again.
C22_AtMostOneDiagnostic ==
    Checked => Len(chk.rep) <= 1

\* an array of struct RMD { int a[2][3]; }: the report is made two calls down,
\* in the array case for the field, and comes through the record and the array
C22_Witness ==
    /\ Checked /\ ~Accepted /\ chk.T = "RMD_a2" /\ chk.expanded = << "RMD" >>
    /\ Len(chk.rep) = 1
    /\ chk.rep[1].msg = "multidimensional arrays cannot be exported: '%0'"

(***************************************************************************)
(* Properties of the registry runs: the class of the returned object.      *)
(***************************************************************************)
\* the export class that belongs to the structural kind of the host type T
ClassForKind(T) ==
    CASE TypeClassOf(T) = "Builtin"       -> "Primitive"
      [] TypeClassOf(T) = "Pointer"       -> "Pointer"
      [] TypeClassOf(T) = "ExtVector"     -> "Vector"
      [] TypeClassOf(T) = "ConstantArray" -> "ConstantArray"
      [] TypeClassOf(T) = "Record" ->
            IF GetRSSpecificType(T) = "Unknown" THEN "Record"
            ELSE IF IsRSMatrixType(GetRSSpecificType(T)) THEN "Matrix"
            ELSE "Primitive"
      [] OTHER -> "None"

\* C23: whenever Create(Context, T) returns an object, after whatever calls came
\* before, the class of the object is the one of T's structural kind: the
\* lookup by name never yields an object built for a type of another kind.
C23_ClassMatchesKind ==
    (Created /\ call.ret # NULL) => heap[call.ret].cls = ClassForKind(call.T)

(***************************************************************************)
(* Properties of the name runs: the name table of the vector types.        *)
(***************************************************************************)
\* the vector passes the guards of RSExportVectorType::GetTypeName: a builtin
\* element of a supported kind and an element count from 1 to 4
PassesNameGuard(EVT) ==
    /\ getTypeClass(GET_EXT_VECTOR_ELEMENT_TYPE(EVT)) = "Builtin"
    /\ astTypes[GET_EXT_VECTOR_ELEMENT_TYPE(EVT)].bk \in SupportedBuiltin
    /\ astTypes[EVT].n >= 1 /\ astTypes[EVT].n <= 4

\* C24: RSExportVectorType::GetTypeName never reads outside its table of three
\* names: for a vector that passes its guards the index read is within 0..2,
\* and for every other vector the name is empty.
C24_VectorNameInsideTable ==
    (query.op = "name" /\ isExtVectorType(query.T)) =>
        IF PassesNameGuard(GET_CANONICAL_TYPE(query.T))
        THEN query.index \in 0 .. 2 /\ ~query.oob
        ELSE query.name = EmptyName

====
